---- MODULE Spec2Model ----
(***************************************************************************)
(* Model of plantcv.analyze_color (plantcv/plantcv/analyze_color.py).      *)
(* An image is the row-major sequence of its pixels, a pixel is the tuple  *)
(* <<b, g, r>>, a mask is a sequence of 0/255 of the same length.          *)
(***************************************************************************)
EXTENDS Integers, Sequences, FiniteSets, TLC

VARIABLES device, debug, debug_out, measurements, images, call, threads, lock, useLock

vars == <<device, debug, debug_out, measurements, images, call, threads, lock, useLock>>

(* ------------------------------ bounds --------------------------------- *)
\* pixels per image
NumPixels == 2
\* largest bin count passed to analyze_color
MaxBins == 3
\* calls made on one process (params.device never exceeds it)
MaxCalls == 2

(* ------------------------------ inputs --------------------------------- *)
Black == <<0, 0, 0>>
White == <<255, 255, 255>>
Gray == <<128, 128, 128>>
Green == <<0, 255, 0>>

Palette == {White, Gray, Green}

\* 3-dimensional (colour) images
ColorImages == {[ndim |-> 3, pix |-> p] : p \in [1..NumPixels -> Palette]}

\* a 2-dimensional (single channel) image
GrayImages == {[ndim |-> 2, pix |-> [i \in 1..NumPixels |-> 128]]}

Masks == [1..NumPixels -> {0, 255}]

BinCounts == 1..MaxBins

\* hist_plot_type: None, or a string given as the sequence of its characters
None == [isNone |-> TRUE, str |-> <<>>]
Str(s) == [isNone |-> FALSE, str |-> s]
PlotTypes == {None, Str(<<"r", "g", "b">>), Str(<<"L", "a", "b">>),
              Str(<<"H", "S", "V">>), Str(<<"A", "l", "l">>), Str(<<"x", "y", "z">>)}

DebugModes == {"None", "print", "plot"}

(* --------------------------- dictionaries ------------------------------ *)
EmptyDict == [k \in {} |-> 0]
Put(d, k, v) == [x \in DOMAIN d \cup {k} |-> IF x = k THEN v ELSE d[x]]

(* ------------------------- library functions --------------------------- *)
\* str.upper() on the characters that occur in the plot types
UpperChar(c) ==
    CASE c = "a" -> "A" [] c = "b" -> "B" [] c = "g" -> "G" [] c = "h" -> "H"
      [] c = "l" -> "L" [] c = "r" -> "R" [] c = "s" -> "S" [] c = "v" -> "V"
      [] c = "x" -> "X" [] c = "y" -> "Y" [] c = "z" -> "Z" [] OTHER -> c
upperCaseSensitive(s) == s
upper(s) == [i \in 1..Len(s) |-> UpperChar(s[i])]

\* cv2.bitwise_and(rgb_img, rgb_img, mask=mask): pixels where the mask is 0 are black
bitwise_and(pix, mask) == [i \in 1..Len(pix) |-> IF mask[i] # 0 THEN pix[i] ELSE Black]

\* cv2.cvtColor(_, COLOR_BGR2LAB) on 8-bit pixels
BGR2LAB(p) ==
    CASE p = Black -> <<0, 128, 128>>
      [] p = White -> <<255, 128, 128>>
      [] p = Gray -> <<137, 128, 128>>
      [] p = Green -> <<224, 42, 211>>

\* cv2.cvtColor(_, COLOR_BGR2HSV) on 8-bit pixels (hue in 0..179)
BGR2HSV(p) ==
    CASE p = Black -> <<0, 0, 0>>
      [] p = White -> <<0, 0, 255>>
      [] p = Gray -> <<0, 0, 128>>
      [] p = Green -> <<60, 255, 255>>

\* cv2.split: channel k of an image
split(pix, k) == [i \in 1..Len(pix) |-> pix[i][k]]

\* np.divide(ch, 256 / bins).astype(np.uint8)
Normalize(ch, bins) == [i \in 1..Len(ch) |-> (ch[i] * bins) \div 256]

\* cv2.calcHist([ch], [0], mask, [bins], [lo, hi]): bins uniform cells over
\* [lo, hi), hi exclusive; values outside are not counted
calcHist(ch, mask, bins, lo, hi) ==
    [k \in 1..bins |->
        Cardinality({i \in 1..Len(ch) :
            /\ mask[i] # 0
            /\ lo <= ch[i]
            /\ ch[i] < hi
            /\ ((ch[i] - lo) * bins) \div (hi - lo) = k - 1})]


\* scipy.stats.circmean / circstd(samples, high): a term over the samples
\* (the value itself is a real number); NaN on an empty sample
circstat(fn, samples, high) ==
    [nan |-> samples = <<>>, fn |-> fn, samples |-> samples, high |-> high]

\* np.median(samples) of an ascending sequence, as the fraction num/den; NaN on
\* an empty sample
np_median(samples) ==
    LET n == Len(samples) IN
    IF n = 0 THEN [nan |-> TRUE, num |-> 0, den |-> 0]
    ELSE IF n % 2 = 1 THEN [nan |-> FALSE, num |-> samples[(n + 1) \div 2], den |-> 1]
    ELSE [nan |-> FALSE, num |-> samples[n \div 2] + samples[n \div 2 + 1], den |-> 2]

(* --------------------------- analyze_color ----------------------------- *)
ChannelKeys == {"b", "g", "r", "l", "m", "y", "h", "s", "v"}

\* the 9 channels of the masked image, its Lab and its HSV conversion
Channels(masked) ==
    LET lab == [i \in 1..Len(masked) |-> BGR2LAB(masked[i])]
        hsv == [i \in 1..Len(masked) |-> BGR2HSV(masked[i])]
    IN [b |-> split(masked, 1), g |-> split(masked, 2), r |-> split(masked, 3),
        l |-> split(lab, 1), m |-> split(lab, 2), y |-> split(lab, 3),
        h |-> split(hsv, 1), s |-> split(hsv, 2), v |-> split(hsv, 3)]

norm_channels(ch, bins) == [c \in ChannelKeys |-> Normalize(ch[c], bins)]

hist_types ==
    [ALL |-> <<"b", "g", "r", "l", "m", "y", "h", "s", "v">>, RGB |-> <<"b", "g", "r">>,
     LAB |-> <<"l", "m", "y">>, HSV |-> <<"h", "s", "v">>]

\* the key of hist_types spelled by a character sequence, "" when there is none
TypeKey(s) ==
    CASE s = <<"A", "L", "L">> -> "ALL"
      [] s = <<"R", "G", "B">> -> "RGB"
      [] s = <<"L", "A", "B">> -> "LAB"
      [] s = <<"H", "S", "V">> -> "HSV"
      [] OTHER -> ""

\* hist_plot_type is not None and hist_plot_type.upper() not in hist_types
BadPlotType(t) == ~t.isNone /\ TypeKey(upper(t.str)) \notin DOMAIN hist_types

\* histograms[c]["hist"] for the 9 channels, as the lists hist_data_<c>
hist_data(norm, mask, bins) ==
    [c \in ChannelKeys |-> calcHist(norm[c], mask, bins, 0, bins - 1)]

\* the masked histograms of an image: lines 39-96
HistogramsUnmasked(pix, mask, bins) ==
    hist_data(norm_channels(Channels(pix), bins), [i \in 1..Len(pix) |-> 255], bins)
Histograms(pix, mask, bins) ==
    hist_data(norm_channels(Channels(bitwise_and(pix, mask)), bins), mask, bins)

\* np.arange(0, bins) as a list
bin_values(bins) == [i \in 1..bins |-> i - 1]

\* the ggplot figure of one plot type: the melted channels and the colour scale
hist_fig(key) ==
    CASE key = "RGB" -> [value_vars |-> <<"blue", "green", "red">>,
                         colors |-> <<"blue", "green", "red">>]
      [] key = "LAB" -> [value_vars |-> <<"lightness", "green-magenta", "blue-yellow">>,
                         colors |-> <<"yellow", "magenta", "dimgray">>]
      [] key = "HSV" -> [value_vars |-> <<"hue", "saturation", "value">>,
                         colors |-> <<"blueviolet", "cyan", "orange">>]
      [] key = "ALL" -> [value_vars |-> <<"blue", "green", "red", "lightness",
                                          "green-magenta", "blue-yellow", "hue",
                                          "saturation", "value">>,
                         colors |-> <<"blue", "yellow", "green", "magenta", "blueviolet",
                                      "dimgray", "red", "cyan", "orange">>]

analysis_images(t) == IF t.isNone THEN <<>> ELSE <<hist_fig(TypeKey(upper(t.str)))>>

\* Counter(h) with the entry of 0 deleted
HueCounterKeepZero(h) ==
    [v \in {h[i] : i \in 1..Len(h)} |-> Cardinality({i \in 1..Len(h) : h[i] = v})]
HueCounter(h) ==
    [v \in {h[i] : i \in 1..Len(h)} \ {0} |-> Cardinality({i \in 1..Len(h) : h[i] = v})]

RECURSIVE Repeat(_, _)
Repeat(v, n) == IF n = 0 THEN <<>> ELSE <<v>> \o Repeat(v, n - 1)

Min(S) == CHOOSE x \in S : \A y \in S : x <= y

\* each key of the counter, in ascending order, appended as often as its count
RECURSIVE Expand(_, _)
Expand(c, keys) ==
    IF keys = {} THEN <<>>
    ELSE LET k == Min(keys) IN Repeat(k, c[k]) \o Expand(c, keys \ {k})

temp_hue_list_hsv(h) == Expand(HueCounter(h), DOMAIN HueCounter(h))

color_header ==
    <<"HEADER_COLOR", "bin-number", "bin-values", "blue", "green", "red", "lightness",
      "green-magenta", "blue-yellow", "hue", "saturation", "value", "circular_mean",
      "circular_std", "median">>

\* lines 39-96 and 156-182 for one image, mask and bin count
Analysis(pix, mask, bins) ==
    LET h == Channels(bitwise_and(pix, mask)).h
        hues == temp_hue_list_hsv(h)
    IN [bins |-> bins, bin_values |-> bin_values(bins),
        hist |-> Histograms(pix, mask, bins), h |-> h, temp_hue_list_hsv |-> hues,
        circular_mean |-> circstat("circmean", hues, 180),
        circular_std |-> circstat("circstd", hues, 180),
        median |-> np_median(hues)]

color_data(a) ==
    <<"COLOR_DATA", a.bins, a.bin_values, a.hist["b"], a.hist["g"], a.hist["r"],
      a.hist["l"], a.hist["m"], a.hist["y"], a.hist["h"], a.hist["s"], a.hist["v"],
      a.circular_mean, a.circular_std, a.median>>

\* the assignments of lines 234-247, in order
StoreWritesNoBinNumber(a) ==
    <<<<"bin-values", a.bin_values>>, <<"blue", a.hist["b"]>>,
      <<"green", a.hist["g"]>>, <<"red", a.hist["r"]>>, <<"lightness", a.hist["l"]>>,
      <<"green-magenta", a.hist["m"]>>, <<"blue-yellow", a.hist["y"]>>,
      <<"hue", a.hist["h"]>>, <<"saturation", a.hist["s"]>>, <<"value", a.hist["v"]>>,
      <<"mean", a.circular_mean>>, <<"standard-deviation", a.circular_std>>,
      <<"median", a.median>>>>
StoreWrites(a) ==
    <<<<"bin-number", a.bins>>, <<"bin-values", a.bin_values>>, <<"blue", a.hist["b"]>>,
      <<"green", a.hist["g"]>>, <<"red", a.hist["r"]>>, <<"lightness", a.hist["l"]>>,
      <<"green-magenta", a.hist["m"]>>, <<"blue-yellow", a.hist["y"]>>,
      <<"hue", a.hist["h"]>>, <<"saturation", a.hist["s"]>>, <<"value", a.hist["v"]>>,
      <<"mean", a.circular_mean>>, <<"standard-deviation", a.circular_std>>,
      <<"median", a.median>>>>

\* the dictionary d after the first n of the assignments ws
RECURSIVE ApplyWrites(_, _, _)
ApplyWrites(d, ws, n) ==
    IF n = 0 THEN d ELSE Put(ApplyWrites(d, ws, n - 1), ws[n][1], ws[n][2])

\* lines 232-233: the category, created empty when missing
EnsureCategoryReset(m) == Put(EmptyDict, "color_data", EmptyDict)
EnsureCategory(m) == IF "color_data" \in DOMAIN m THEN m ELSE Put(m, "color_data", EmptyDict)

\* lines 232-247
StoreMeasurements(m, ws) ==
    Put(EnsureCategory(m), "color_data",
        ApplyWrites(EnsureCategory(m)["color_data"], ws, Len(ws)))

\* line 250
StoreImagesSkipEmpty(imgs, figs) == IF figs = <<>> THEN imgs ELSE Append(imgs, figs)
StoreImages(imgs, figs) == Append(imgs, figs)

\* what a call that gets past line 86 computes from its image, mask and bin
\* count, evaluated once for every input of the model
AnalysisTable ==
    [x \in [1..NumPixels -> Palette] \X Masks \X (2..MaxBins) |->
        [a |-> Analysis(x[1], x[2], x[3]),
         color_data |-> color_data(Analysis(x[1], x[2], x[3])),
         writes |-> StoreWrites(Analysis(x[1], x[2], x[3]))]] @@ EmptyDict

\* lines 225-229: the figure is saved under the device number, or printed
DebugOutput(out, dbg, dev, t) ==
    IF t.isNone \/ dbg = "None" THEN out
    ELSE Append(out, [how |-> dbg, device |-> dev])

(* ------------------------------ calls ---------------------------------- *)
Threads == {1, 2}
NoThreads == [t \in Threads |-> [pc |-> "idle"]]

\* fatal_error(message): the call ends in an exception
fatal_error(kind, message) == [status |-> "error", error |-> kind, message |-> message]

\* lines 34-37: rgb_img has fewer than 3 dimensions
AnalyzeColorInvalidInput(rgb_img, mask, bins, t) ==
    /\ device < MaxCalls
    /\ rgb_img.ndim < 3
    /\ device' = device + 1
    /\ call' = fatal_error("InvalidInput", <<"rgb_img must be an RGB image">>)
    /\ UNCHANGED <<debug, debug_out, measurements, images, threads, lock, useLock>>

\* lines 34-66: hist_plot_type is no key of hist_types
AnalyzeColorInvalidArgumentLate(rgb_img, mask, bins, t) ==
    /\ device < MaxCalls
    /\ rgb_img.ndim >= 3
    /\ BadPlotType(t)
    /\ 0 < bins - 1
    /\ device' = device + 1
    /\ measurements' = StoreMeasurements(measurements,
                                         AnalysisTable[<<rgb_img.pix, mask, bins>>].writes)
    /\ images' = StoreImages(images, <<>>)
    /\ call' = fatal_error("InvalidArgument",
                           <<"The histogram plot type was ">> \o t.str)
    /\ UNCHANGED <<debug, debug_out, threads, lock, useLock>>
AnalyzeColorInvalidArgument(rgb_img, mask, bins, t) ==
    /\ device < MaxCalls
    /\ rgb_img.ndim >= 3
    /\ BadPlotType(t)
    /\ device' = device + 1
    /\ call' = fatal_error("InvalidArgument",
                           <<"The histogram plot type was ">> \o t.str)
    /\ UNCHANGED <<debug, debug_out, measurements, images, threads, lock, useLock>>

\* lines 34-69: cv2.calcHist rejects the range [0, bins - 1] when it is empty
AnalyzeColorCvError(rgb_img, mask, bins, t) ==
    /\ device < MaxCalls
    /\ rgb_img.ndim >= 3
    /\ ~BadPlotType(t)
    /\ ~(0 < bins - 1)
    /\ device' = device + 1
    /\ call' = [status |-> "error", error |-> "cv2.error", message |-> <<"calcHist">>]
    /\ UNCHANGED <<debug, debug_out, measurements, images, threads, lock, useLock>>

\* lines 34-252: the call returns color_header, color_data, analysis_images
AnalyzeColorReturn(rgb_img, mask, bins, t) ==
    /\ device < MaxCalls
    /\ rgb_img.ndim >= 3
    /\ ~BadPlotType(t)
    /\ 0 < bins - 1
    /\ LET r == AnalysisTable[<<rgb_img.pix, mask, bins>>] IN
        /\ device' = device + 1
        /\ debug_out' = DebugOutput(debug_out, debug, device + 1, t)
        /\ measurements' = StoreMeasurements(measurements, r.writes)
        /\ images' = StoreImages(images, analysis_images(t))
        /\ call' = [status |-> "ok", rgb_img |-> rgb_img, mask |-> mask, bins |-> bins,
                    hist_plot_type |-> t, h |-> r.a.h,
                    temp_hue_list_hsv |-> r.a.temp_hue_list_hsv,
                    color_header |-> color_header, color_data |-> r.color_data,
                    analysis_images |-> analysis_images(t)]
    /\ UNCHANGED <<debug, threads, lock, useLock>>

AnalyzeColor(rgb_img, mask, bins, t) ==
    \/ AnalyzeColorInvalidInput(rgb_img, mask, bins, t)
    \/ AnalyzeColorInvalidArgument(rgb_img, mask, bins, t)
    \/ AnalyzeColorCvError(rgb_img, mask, bins, t)
    \/ AnalyzeColorReturn(rgb_img, mask, bins, t)

(* ------------------- a pipeline of sequential calls -------------------- *)
\* outputs.measurements as an earlier analysis step of the pipeline left it
ShapeData == Put(EmptyDict, "shape_data", Put(EmptyDict, "area", 7))

\* images of one colour, masks that select every pixel or none
UniformImages == {[ndim |-> 3, pix |-> [i \in 1..NumPixels |-> p]] : p \in Palette}
UniformMasks == {[i \in 1..NumPixels |-> v] : v \in {0, 255}}

Init ==
    /\ device = 0
    /\ debug \in DebugModes
    /\ debug_out = <<>>
    /\ measurements = ShapeData
    /\ images = <<>>
    /\ call = [status |-> "none"]
    /\ threads = NoThreads
    /\ lock = 0
    /\ useLock = FALSE

Next ==
    \E rgb_img \in UniformImages \cup GrayImages, mask \in UniformMasks,
       bins \in BinCounts, t \in PlotTypes :
        \/ AnalyzeColorInvalidInput(rgb_img, mask, bins, t)
        \/ AnalyzeColorInvalidArgument(rgb_img, mask, bins, t)
        \/ AnalyzeColorCvError(rgb_img, mask, bins, t)
        \/ AnalyzeColorReturn(rgb_img, mask, bins, t)

Spec == Init /\ [][Next]_vars

(* ------------------- one image, analysed pixel by pixel ---------------- *)
InitPixels ==
    /\ device = 0
    /\ debug = "None"
    /\ debug_out = <<>>
    /\ measurements = EmptyDict
    /\ images = <<>>
    /\ call = [status |-> "none"]
    /\ threads = NoThreads
    /\ lock = 0
    /\ useLock = FALSE

\* the first call of a process, on any image, mask, bin count and plot type
FirstCall ==
    /\ device = 0
    /\ \E rgb_img \in ColorImages \cup GrayImages, mask \in Masks, bins \in BinCounts,
          t \in PlotTypes :
           AnalyzeColor(rgb_img, mask, bins, t)

\* the call repeated on an image that differs in masked-out pixels only
RecolouredCall ==
    /\ call.status = "ok"
    /\ \E pix \in [1..NumPixels -> Palette] :
        /\ pix # call.rgb_img.pix
        /\ \A i \in 1..NumPixels : call.mask[i] # 0 => pix[i] = call.rgb_img.pix[i]
        /\ AnalyzeColorReturn([ndim |-> 3, pix |-> pix], call.mask, call.bins,
                              call.hist_plot_type)

NextPixels == FirstCall \/ RecolouredCall

SpecPixels == InitPixels /\ [][NextPixels]_vars

(* ------------------- two calls on concurrent threads ------------------- *)
\* each thread analyses a white image under a mask of ones, with its own bin count
ThreadInputs == [pix : {[i \in 1..NumPixels |-> White]},
                 mask : {[i \in 1..NumPixels |-> 255]},
                 bins : 2..MaxBins]

ThreadStart(in) ==
    [pc |-> "start", color_data |-> AnalysisTable[<<in.pix, in.mask, in.bins>>].color_data,
     writes |-> AnalysisTable[<<in.pix, in.mask, in.bins>>].writes, k |-> 0]

InitConc ==
    /\ device = 0
    /\ debug = "None"
    /\ debug_out = <<>>
    /\ measurements = ShapeData
    /\ images = <<>>
    /\ call = [status |-> "none"]
    /\ threads \in [Threads -> {ThreadStart(in) : in \in ThreadInputs}]
    /\ lock = 0
    /\ useLock \in BOOLEAN

\* the caller's lock, when the calls are serialized by one
LockFree == ~useLock \/ lock = 0

\* lines 34-229, after the caller took its lock: nothing shared is written but
\* params.device
Enter(t) ==
    /\ threads[t].pc = "start"
    /\ device < MaxCalls
    /\ LockFree
    /\ lock' = IF useLock THEN t ELSE lock
    /\ device' = device + 1
    /\ threads' = [threads EXCEPT ![t].pc = "check"]
    /\ UNCHANGED <<debug, debug_out, measurements, images, call, useLock>>

\* line 232
CheckCategory(t) ==
    /\ threads[t].pc = "check"
    /\ threads' = [threads EXCEPT
                     ![t].pc = IF "color_data" \in DOMAIN measurements THEN "write"
                               ELSE "create",
                     ![t].k = 1]
    /\ UNCHANGED <<device, debug, debug_out, measurements, images, call, lock, useLock>>

\* line 233
CreateCategory(t) ==
    /\ threads[t].pc = "create"
    /\ measurements' = Put(measurements, "color_data", EmptyDict)
    /\ threads' = [threads EXCEPT ![t].pc = "write"]
    /\ UNCHANGED <<device, debug, debug_out, images, call, lock, useLock>>

\* one of the assignments of lines 234-247
WriteField(t) ==
    /\ threads[t].pc = "write"
    /\ LET w == threads[t].writes[threads[t].k] IN
        measurements' = Put(measurements, "color_data",
                            Put(measurements["color_data"], w[1], w[2]))
    /\ threads' = [threads EXCEPT
                     ![t].pc = IF threads[t].k = Len(threads[t].writes) THEN "append"
                               ELSE "write",
                     ![t].k = threads[t].k + 1]
    /\ UNCHANGED <<device, debug, debug_out, images, call, lock, useLock>>

\* lines 250-252; the caller then releases its lock
AppendImages(t) ==
    /\ threads[t].pc = "append"
    /\ images' = StoreImages(images, analysis_images(None))
    /\ threads' = [threads EXCEPT ![t].pc = "done"]
    /\ lock' = IF useLock THEN 0 ELSE lock
    /\ UNCHANGED <<device, debug, debug_out, measurements, call, useLock>>

NextConc ==
    \E t \in Threads :
        \/ Enter(t)
        \/ CheckCategory(t)
        \/ CreateCategory(t)
        \/ WriteField(t)
        \/ AppendImages(t)

SpecConc == InitConc /\ [][NextConc]_vars

(* ------------------------------ properties ----------------------------- *)
RECURSIVE Sum(_)
Sum(q) == IF q = <<>> THEN 0 ELSE Head(q) + Sum(Tail(q))

Occurrences(q, v) == Cardinality({i \in 1..Len(q) : q[i] = v})

MaskedIn(mask) == {i \in 1..Len(mask) : mask[i] # 0}

\* the channels in the order of their histograms in color_data[4..12]
ChannelOrder == <<"b", "g", "r", "l", "m", "y", "h", "s", "v">>

\* the 9 histograms a call returned
ReturnedHist(n) == call.color_data[n + 3]

\* the channel values of the masked image of the last call
MaskedChannel(n) == Channels(bitwise_and(call.rgb_img.pix, call.mask))[ChannelOrder[n]]

\* C1: each of the 9 returned histograms has bins entries, all non-negative,
\* summing to the number of pixels the mask selects
HistogramsCountEveryMaskedPixel ==
    call.status = "ok" =>
        \A n \in 1..9 :
            /\ Len(ReturnedHist(n)) = call.bins
            /\ \A k \in 1..call.bins : ReturnedHist(n)[k] >= 0
            /\ Sum(ReturnedHist(n)) = Cardinality(MaskedIn(call.mask))

\* C2: bin k of each returned histogram counts the masked-in pixels whose
\* channel value v has floor(v * bins / 256) = k, the top bin included
HistogramBinIsQuantizedValue ==
    call.status = "ok" =>
        \A n \in 1..9 : \A k \in 0..(call.bins - 1) :
            ReturnedHist(n)[k + 1] =
                Cardinality({i \in MaskedIn(call.mask) :
                    (MaskedChannel(n)[i] * call.bins) \div 256 = k})

\* C3: a call repeated with the same mask and bin count on an image that differs
\* in masked-out pixels only returns the same 9 histograms
MaskedOutPixelsNeverCount ==
    [][(/\ call.status = "ok"
        /\ call'.status = "ok"
        /\ call'.mask = call.mask
        /\ call'.bins = call.bins
        /\ \A i \in MaskedIn(call.mask) : call'.rgb_img.pix[i] = call.rgb_img.pix[i])
       => \A n \in 1..9 : call'.color_data[n + 3] = call.color_data[n + 3]]_vars

\* a second call has run on a recoloured image: a pixel the mask leaves out has a
\* colour of its own, next to a pixel the mask selects
MaskedOutRecoloured ==
    /\ device = 2
    /\ call.status = "ok"
    /\ \E i, j \in 1..NumPixels :
        /\ call.mask[i] = 0
        /\ call.mask[j] # 0
        /\ call.rgb_img.pix[i] # call.rgb_img.pix[j]

\* the hue channel of the masked image, from the arguments of the last call
HueOfMasked ==
    [i \in 1..NumPixels |->
        IF call.mask[i] # 0 THEN BGR2HSV(call.rgb_img.pix[i])[1] ELSE 0]

\* C4 as claimed: the hue observations are the non-zero values of the hue channel
\* reduced to bins levels, each as often as it occurs there
HueSamplesAreQuantized ==
    call.status = "ok" =>
        \A v \in 0..255 :
            Occurrences(call.temp_hue_list_hsv, v) =
                IF v = 0 THEN 0
                ELSE Occurrences(Normalize(HueOfMasked, call.bins), v)

\* C4 as amended: the hue observations are the non-zero values of the hue channel
\* itself (0..179, not reduced to bins levels), each as often as it occurs there,
\* and no 0
HueSamplesAreRawHue ==
    call.status = "ok" =>
        \A v \in 0..255 :
            Occurrences(call.temp_hue_list_hsv, v) =
                IF v = 0 THEN 0 ELSE Occurrences(HueOfMasked, v)

\* a call has built its observations from a hue that the bins reduce to 0, next
\* to a selected pixel of hue 0
HueSamplesTaken ==
    /\ call.status = "ok"
    /\ call.temp_hue_list_hsv # <<>>
    /\ \E i \in MaskedIn(call.mask) : HueOfMasked[i] = 0
    /\ \E i \in MaskedIn(call.mask) :
        HueOfMasked[i] # 0 /\ (HueOfMasked[i] * call.bins) \div 256 = 0

\* C5: a call whose masked image has hue 0 everywhere does not return: it ends
\* in the error DegenerateInput, and the store keeps no NaN statistics
AllZeroHueIsAnError ==
    /\ call.status = "ok" => \E i \in 1..NumPixels : call.h[i] # 0
    /\ "color_data" \in DOMAIN measurements =>
        \A f \in {"mean", "standard-deviation", "median"} :
            ~measurements["color_data"][f].nan

\* C6: a call that fails validation leaves measurements and images as they were
ValidationFailureKeepsStore ==
    [][(call'.status = "error" /\ call'.error \in {"InvalidInput", "InvalidArgument"})
       => (measurements' = measurements /\ images' = images)]_vars

\* a call failed validation on a store that holds color_data of an earlier call
ValidationFailedOnFilledStore ==
    /\ call.status = "error"
    /\ call.error = "InvalidArgument"
    /\ "color_data" \in DOMAIN measurements
    /\ Len(images) = 1

\* the spellings of 'all', 'rgb', 'lab', 'hsv' in any mix of cases
Spellings ==
    {s \in [1..3 -> {"a", "A", "b", "B", "g", "G", "h", "H", "l", "L", "r", "R",
                     "s", "S", "v", "V"}] :
        \E w \in {<<"a", "l", "l">>, <<"r", "g", "b">>, <<"l", "a", "b">>,
                  <<"h", "s", "v">>} :
            \A i \in 1..3 : s[i] = w[i] \/ s[i] = UpperChar(w[i])}

\* C7: a returned artifact list is empty for None and holds one artifact for a
\* spelling of all, rgb, lab or hsv; no other string returns, and no spelling is
\* rejected
PlotListMatchesPlotType ==
    /\ call.status = "ok" =>
        IF call.hist_plot_type.isNone THEN call.analysis_images = <<>>
        ELSE call.hist_plot_type.str \in Spellings /\ Len(call.analysis_images) = 1
    /\ (call.status = "error" /\ call.error = "InvalidArgument") =>
        SubSeq(call.message, 2, Len(call.message)) \notin Spellings

\* a call with a mixed-case plot type has returned its one artifact
MixedCasePlotReturned ==
    /\ call.status = "ok"
    /\ call.hist_plot_type = Str(<<"L", "a", "b">>)
    /\ Len(call.analysis_images) = 1

StoreFields ==
    {"bin-number", "bin-values", "blue", "green", "red", "lightness", "green-magenta",
     "blue-yellow", "hue", "saturation", "value", "mean", "standard-deviation", "median"}

\* the category holds exactly the values of one returned color_data
FieldsMatch(cat, cd) ==
    /\ DOMAIN cat = StoreFields
    /\ cat["bin-number"] = cd[2]
    /\ cat["bin-values"] = cd[3]
    /\ cat["blue"] = cd[4]
    /\ cat["green"] = cd[5]
    /\ cat["red"] = cd[6]
    /\ cat["lightness"] = cd[7]
    /\ cat["green-magenta"] = cd[8]
    /\ cat["blue-yellow"] = cd[9]
    /\ cat["hue"] = cd[10]
    /\ cat["saturation"] = cd[11]
    /\ cat["value"] = cd[12]
    /\ cat["mean"] = cd[13]
    /\ cat["standard-deviation"] = cd[14]
    /\ cat["median"] = cd[15]

\* C8: after a successful call every field of color_data is the value that call
\* returned, and every other category is as it was
StoreHoldsLastCall ==
    [][call'.status = "ok" =>
        /\ FieldsMatch(measurements'["color_data"], call'.color_data)
        /\ DOMAIN measurements' \ {"color_data"} = DOMAIN measurements \ {"color_data"}
        /\ \A c \in DOMAIN measurements \ {"color_data"} :
            measurements'[c] = measurements[c]]_vars

\* two calls have succeeded, the later one with 3 bins over fields of another
\* length or none
SecondCallStored ==
    /\ Len(images) = 2
    /\ call.status = "ok"
    /\ call.bins = 3
    /\ measurements["color_data"]["bin-number"] = 3
    /\ "shape_data" \in DOMAIN measurements

AllDone == \A t \in Threads : threads[t].pc = "done"

\* C9: once two calls serialized by a lock have finished, color_data holds the
\* fields of one of them; without the lock a mix of both is reachable
SerializedCallsLeaveOneResult ==
    (useLock /\ AllDone) =>
        \E t \in Threads : FieldsMatch(measurements["color_data"], threads[t].color_data)

\* two unlocked calls have finished and left bin-number of one with a histogram
\* of the other
InterleavedCallsLeftMixedFields ==
    /\ ~useLock
    /\ AllDone
    /\ measurements["color_data"]["bin-number"] # Len(measurements["color_data"]["blue"])

\* C10: a successful call appends its own artifact list to outputs.images as one
\* entry and leaves the earlier entries alone
ImagesGainOneEntryPerCall ==
    [][(call'.status = "ok" /\ device' # device) =>
        images' = images \o <<call'.analysis_images>>]_vars

\* two calls have succeeded, one without a plot and one with
TwoEntriesOnePlot ==
    /\ Len(images) = 2
    /\ images[1] = <<>>
    /\ Len(images[2]) = 1

====
